---- MODULE Spec2Model ----
(***************************************************************************)
(* A model of glsp-engine/src/wrap.rs: the arity calculator                *)
(* (arg_limits_fn), wrap(), and wrapped_call() with its per-argument       *)
(* staging (make_temp) and projection (from_arg) steps, including          *)
(* re-entrant calls made by the body of a wrapped native function.         *)
(***************************************************************************)
EXTENDS Integers, Naturals, Sequences, FiniteSets, TLC

\* ------------------------------------------------------------------------
\* Bounds of the model
\* ------------------------------------------------------------------------
\* longest parameter list handed to wrap() in the call machine
MaxParams == 2
\* longest parameter list handed to wrap() in the arity-only specification
MaxArity == 4
\* largest number of arguments placed on the stack for one call
MaxArgs == 2
\* largest number of arguments in a call of the summing function
MaxSumArgs == 4
\* largest number of entries of a table converted to a native map
MaxKeys == 3
\* deepest nesting of wrapped calls (1 = no re-entrant call)
MaxDepth == 2

\* usize::MAX, the "unbounded" maximum; the model keeps only that it is
\* larger than every argument count (TLC integers are 32 bits wide)
USIZE_MAX == 2147483647

\* ------------------------------------------------------------------------
\* Slots (dynamic values) that appear as arguments
\* ------------------------------------------------------------------------
\* the RData boxes on the heap, each holding a value of the native type T
Boxes == {1}
\* the RGlobal singleton of type G is tracked as one more borrow cell
GCell == Cardinality(Boxes) + 1
Cells == Boxes \cup {GCell}
\* the RData boxes that hold a value of another native type U
OtherBoxes == {Cardinality(Cells) + 1}
\* the arrays on the heap: the first holds integers, the second holds an
\* element that is not an integer
Arrs == {1, 2}

SlotNil == [tag |-> "Nil", v |-> 0]
SlotInt(n) == [tag |-> "Int", v |-> n]
SlotRData(b) == [tag |-> "RData", v |-> b]
SlotArr(a) == [tag |-> "Arr", v |-> a]
Slots == {SlotNil, SlotInt(1)} \cup {SlotRData(b) : b \in Boxes}

\* the elements of the array a
arr_items(a) == IF a = 1 THEN <<SlotInt(1), SlotInt(1)>> ELSE <<SlotInt(1), SlotNil>>

RECURSIVE SeqsUpTo(_, _)
SeqsUpTo(S, n) ==
    IF n = 0 THEN {<<>>}
    ELSE LET shorter == SeqsUpTo(S, n - 1)
         IN shorter \cup {Append(s, x) : s \in {t \in shorter : Len(t) = n - 1}, x \in S}

\* ------------------------------------------------------------------------
\* Parameter types: the implementations of FromArg / FromArgRef
\* ------------------------------------------------------------------------
ArgType == {"RGlobal", "Normal", "Option", "Rest"}

\* base: Val = T: FromVal (an i32), Rest = Rest<i32>, Slice = &[i32],
\* Ref = &T, RefMut = &mut T (T stored in an RData), GRef = &G,
\* GRefMut = &mut G (G: RGlobal); opt = wrapped in Option<...>
Param(base, opt) == [base |-> base, opt |-> opt]
PVal == Param("Val", FALSE)
PRest == Param("Rest", FALSE)
PSlice == Param("Slice", FALSE)
PRef == Param("Ref", FALSE)
PRefMut == Param("RefMut", FALSE)
PGRef == Param("GRef", FALSE)
PGRefMut == Param("GRefMut", FALSE)
POptVal == Param("Val", TRUE)
POptRef == Param("Ref", TRUE)
POptRefMut == Param("RefMut", TRUE)
POptGRef == Param("GRef", TRUE)

\* the parameter types of wrapped functions that take values and references
\* to RData
DataParamTypes == {PVal, POptVal, PRest, PRef, PRefMut, POptRef}
\* the parameter types of wrapped functions that take values and references
\* to the RGlobal singleton
GlobalParamTypes == {PVal, POptVal, PRest, PGRef, PGRefMut, POptGRef}
\* one parameter type of each ArgType, for the arity calculator alone
ArityParamTypes == {PVal, POptVal, PRest, PGRef}
\* the parameter types of wrapped functions called with RData boxes of two
\* native types
TypedParamTypes == {PVal, PRef, PRefMut}
\* the parameter types whose conversion is deferred to from_arg
DeferredParamTypes == {PVal, PRest, PSlice}

\* arg_type with Option<T> taking the ArgType of an RGlobal T
arg_type_of_wrapped_rglobal(p) ==
    CASE p.base \in {"GRef", "GRefMut"} -> "RGlobal"
      [] p.opt -> "Option"
      [] p.base = "Rest" -> "Rest"
      [] OTHER -> "Normal"

\* T::arg_type()
arg_type(p) ==
    IF p.opt THEN "Option"
    ELSE CASE p.base = "Val" -> "Normal"
           [] p.base = "Rest" -> "Rest"
           [] p.base = "Slice" -> "Normal"
           [] p.base \in {"Ref", "RefMut"} -> "Normal"
           [] p.base \in {"GRef", "GRefMut"} -> "RGlobal"

ArgTypes(ps) == [i \in 1..Len(ps) |-> arg_type(ps[i])]

\* ------------------------------------------------------------------------
\* arg_limits_fn: the arity calculator
\* ------------------------------------------------------------------------
LimitsInit == [required_args |-> 0, optional_args |-> 0, seen_rest |-> FALSE, err |-> ""]

\* arg_limits_step without `optional_args = 0` in the Normal arm
arg_limits_step_keeps_optional(st, a) ==
    CASE a = "Normal" ->
           IF st.seen_rest
           THEN [st EXCEPT !.err = "Rest<T> followed by a normal argument"]
           ELSE [st EXCEPT !.required_args = st.required_args + st.optional_args + 1]
      [] a = "Option" ->
           IF st.seen_rest
           THEN [st EXCEPT !.err = "Rest<T> followed by an Option<T> argument"]
           ELSE [st EXCEPT !.optional_args = st.optional_args + 1]
      [] a = "Rest" -> [st EXCEPT !.seen_rest = TRUE]
      [] OTHER -> st

\* arg_limits_step rejecting a Normal argument that follows an Option one
arg_limits_step_rejects_after_option(st, a) ==
    CASE a = "Normal" ->
           IF st.seen_rest
           THEN [st EXCEPT !.err = "Rest<T> followed by a normal argument"]
           ELSE IF st.optional_args > 0
           THEN [st EXCEPT !.err = "Option<T> followed by a normal argument"]
           ELSE [st EXCEPT !.required_args = st.required_args + 1]
      [] a = "Option" ->
           IF st.seen_rest
           THEN [st EXCEPT !.err = "Rest<T> followed by an Option<T> argument"]
           ELSE [st EXCEPT !.optional_args = st.optional_args + 1]
      [] a = "Rest" -> [st EXCEPT !.seen_rest = TRUE]
      [] OTHER -> st

\* arg_limits_step without the seen_rest check in the Option arm
arg_limits_step_option_after_rest(st, a) ==
    CASE a = "Normal" ->
           IF st.seen_rest
           THEN [st EXCEPT !.err = "Rest<T> followed by a normal argument"]
           ELSE [st EXCEPT !.required_args = st.required_args + st.optional_args + 1,
                           !.optional_args = 0]
      [] a = "Option" -> [st EXCEPT !.optional_args = st.optional_args + 1]
      [] a = "Rest" -> [st EXCEPT !.seen_rest = TRUE]
      [] OTHER -> st

\* arg_limits_step rejecting a second Rest argument
arg_limits_step_single_rest(st, a) ==
    CASE a = "Normal" ->
           IF st.seen_rest
           THEN [st EXCEPT !.err = "Rest<T> followed by a normal argument"]
           ELSE [st EXCEPT !.required_args = st.required_args + st.optional_args + 1,
                           !.optional_args = 0]
      [] a = "Option" ->
           IF st.seen_rest
           THEN [st EXCEPT !.err = "Rest<T> followed by an Option<T> argument"]
           ELSE [st EXCEPT !.optional_args = st.optional_args + 1]
      [] a = "Rest" ->
           IF st.seen_rest
           THEN [st EXCEPT !.err = "Rest<T> followed by a Rest<T> argument"]
           ELSE [st EXCEPT !.seen_rest = TRUE]
      [] OTHER -> st

\* one expansion of the match on args[$i]; st.err # "" models the early
\* return of Err(..)
arg_limits_step(st, a) ==
    CASE a = "Normal" ->
           IF st.seen_rest
           THEN [st EXCEPT !.err = "Rest<T> followed by a normal argument"]
           ELSE [st EXCEPT !.required_args = st.required_args + st.optional_args + 1,
                           !.optional_args = 0]
      [] a = "Option" ->
           IF st.seen_rest
           THEN [st EXCEPT !.err = "Rest<T> followed by an Option<T> argument"]
           ELSE [st EXCEPT !.optional_args = st.optional_args + 1]
      [] a = "Rest" -> [st EXCEPT !.seen_rest = TRUE]
      [] OTHER -> st

RECURSIVE arg_limits_loop(_, _, _)
arg_limits_loop(args, i, st) ==
    IF st.err # "" \/ i > Len(args) THEN st
    ELSE arg_limits_loop(args, i + 1, arg_limits_step(st, args[i]))

\* Result<(usize, usize), &'static str>
arg_limits_fn(args) ==
    LET st == arg_limits_loop(args, 1, LimitsInit)
    IN IF st.err # ""
       THEN [ok |-> FALSE, err |-> st.err, min |-> 0, max |-> 0]
       ELSE [ok |-> TRUE, err |-> "", min |-> st.required_args,
             max |-> IF st.seen_rest THEN USIZE_MAX
                     ELSE st.required_args + st.optional_args]

\* calculate_arg_limits() is arg_limits_fn(..).unwrap(): it panics on Err
calculate_arg_limits(ps) == arg_limits_fn(ArgTypes(ps))

\* ------------------------------------------------------------------------
\* State
\* ------------------------------------------------------------------------
VARIABLES
    wrapper,     \* the Wrapper built by wrap(): its parameter list and cached arg_limits
    registered,  \* whether an RGlobal singleton of type G is registered
    flag,        \* borrow flag of each RData box and of the singleton:
                 \* 0 free, n > 0 shared borrows, -1 one exclusive borrow
    stack_refs,  \* live Ref<[Slot]> borrows of the register stack (the argument buffer)
    stack,       \* activation records of the wrapped_call()s in progress
    ret,         \* the GResult returned by the wrapped_call() that returned last
    panicked,    \* "" or the message of the panic that ended the program
    conv         \* the conversion (into_val / from_val) under way outside any call

callvars == <<wrapper, registered, flag, stack_refs, stack, ret, panicked>>
vars == <<wrapper, registered, flag, stack_refs, stack, ret, panicked, conv>>

\* wrapper.params is the parameter list wrap() was called with, also when
\* wrap() panicked and built no Wrapper
NoWrapper == [built |-> FALSE, params |-> <<>>, min |-> 0, max |-> 0]
NoResult == [status |-> "none", kind |-> "", received |-> 0, bound |-> 0, val |-> 0]
OkResult == [status |-> "ok", kind |-> "", received |-> 0, bound |-> 0, val |-> 0]
\* Ok(Slot::Int(v))
OkVal(v) == [status |-> "ok", kind |-> "", received |-> 0, bound |-> 0, val |-> v]
ErrResult(kind) == [status |-> "err", kind |-> kind, received |-> 0, bound |-> 0, val |-> 0]
ArityErr(kind, n, bound) ==
    [status |-> "err", kind |-> kind, received |-> n, bound |-> bound, val |-> 0]
NoConv == [phase |-> "none"]

\* ------------------------------------------------------------------------
\* Dynamic borrows: RData::borrow / borrow_mut, glsp::try_rglobal /
\* try_rglobal_mut, and the drop of RRef / RRefMut / RGlobalRef / RGlobalRefMut
\* ------------------------------------------------------------------------
can_borrow(fl, c) == fl[c] >= 0
can_borrow_mut(fl, c) == fl[c] = 0
borrow(fl, c) == [fl EXCEPT ![c] = @ + 1]
borrow_mut(fl, c) == [fl EXCEPT ![c] = -1]

\* the temporaries (FromArg::Temp / FromArgRef::Temp) staged by make_temp
Temp(kind, slot, box, rest) == [kind |-> kind, slot |-> slot, box |-> box, rest |-> rest]
TempNone == Temp("None", SlotNil, GCell, <<>>)
TempSlot(s) == Temp("Slot", s, GCell, <<>>)
TempRest(ss) == Temp("Rest", SlotNil, GCell, ss)
TempSlice(s) == Temp("Slice", s, GCell, <<>>)
TempRRef(b) == Temp("RRef", SlotNil, b, <<>>)
TempRRefMut(b) == Temp("RRefMut", SlotNil, b, <<>>)
TempRGlobalRef == Temp("RGlobalRef", SlotNil, GCell, <<>>)
TempRGlobalRefMut == Temp("RGlobalRefMut", SlotNil, GCell, <<>>)

SharedTemps == {"RRef", "RGlobalRef"}
ExclusiveTemps == {"RRefMut", "RGlobalRefMut"}

\* dropping one temporary releases the borrow it holds
drop_temp(fl, t) ==
    CASE t.kind \in SharedTemps -> [fl EXCEPT ![t.box] = @ - 1]
      [] t.kind \in ExclusiveTemps -> [fl EXCEPT ![t.box] = 0]
      [] OTHER -> fl

RECURSIVE drop_temps(_, _)
drop_temps(fl, temps) ==
    IF temps = <<>> THEN fl
    ELSE drop_temps(drop_temp(fl, temps[Len(temps)]), SubSeq(temps, 1, Len(temps) - 1))

\* ------------------------------------------------------------------------
\* make_temp: the staging step of each parameter type
\* ------------------------------------------------------------------------
\* the outcome of a step: out is "ok", "err" (a GResult Err, returned by `?`)
\* or "panic"; conv is the number of from_slot calls the step made
Staged(t, fl) == [out |-> "ok", temp |-> t, fl |-> fl, err |-> "", conv |-> 0]
StagedConverted(t, fl, n) == [out |-> "ok", temp |-> t, fl |-> fl, err |-> "", conv |-> n]
StageErr(kind, fl) == [out |-> "err", temp |-> TempNone, fl |-> fl, err |-> kind, conv |-> 0]
StagePanic(msg, fl) == [out |-> "panic", temp |-> TempNone, fl |-> fl, err |-> msg, conv |-> 0]

\* args[i] with a 0-based index, as in the source
At(args, i) == args[i + 1]

\* FromArg for T: FromVal :: make_temp
make_temp_val(args, i, fl) == Staged(TempSlot(At(args, i)), fl)

\* make_temp_rest collecting from index i + 1
make_temp_rest_skips_first(args, i, fl) ==
    LET from == IF i + 1 < Len(args) THEN i + 1 ELSE Len(args)
    IN Staged(TempRest(SubSeq(args, from + 1, Len(args))), fl)

\* FromArg for Rest<T> :: make_temp
make_temp_rest(args, i, fl) ==
    LET from == IF i < Len(args) THEN i ELSE Len(args)
    IN Staged(TempRest(SubSeq(args, from + 1, Len(args))), fl)

\* the number of from_slot calls SmallVec::from_slot makes for a slot that
\* converts: its own and one for each element
slice_conversions(slot) == IF slot.tag = "Arr" THEN 1 + Len(arr_items(slot.v)) ELSE 1

\* make_temp_slice calling SmallVec::from_slot at once
make_temp_slice_converts(args, i, fl) ==
    StagedConverted(TempSlice(At(args, i)), fl, slice_conversions(At(args, i)))

\* FromArg for &[T] :: make_temp
make_temp_slice(args, i, fl) == Staged(TempSlice(At(args, i)), fl)

\* RData::borrow(): the RRef it returns is used as it is (no `?`), so a
\* refused borrow cannot come back as a GResult: the call does not return
BorrowPanic == "RData::borrow: already mutably borrowed"
\* the box holds a value of another type: no RRef<T> can be made of it
TypePanic == "RData::borrow: type mismatch"
rdata_borrow(fl, b) ==
    IF b \notin Boxes THEN StagePanic(TypePanic, fl)
    ELSE IF can_borrow(fl, b) THEN Staged(TempRRef(b), borrow(fl, b))
    ELSE StagePanic(BorrowPanic, fl)

\* RData::borrow_mut()
BorrowMutPanic == "RData::borrow_mut: already borrowed"
rdata_borrow_mut(fl, b) ==
    IF b \notin Boxes THEN StagePanic(TypePanic, fl)
    ELSE IF can_borrow_mut(fl, b) THEN Staged(TempRRefMut(b), borrow_mut(fl, b))
    ELSE StagePanic(BorrowMutPanic, fl)

\* glsp::try_rglobal::<G>(): a GResult
try_rglobal(fl, reg) ==
    IF ~reg THEN StageErr("rglobal not registered", fl)
    ELSE IF can_borrow(fl, GCell)
         THEN Staged(TempRGlobalRef, borrow(fl, GCell))
         ELSE StageErr("rglobal borrow conflict", fl)

\* glsp::try_rglobal_mut::<G>(): a GResult
try_rglobal_mut(fl, reg) ==
    IF ~reg THEN StageErr("rglobal not registered", fl)
    ELSE IF can_borrow_mut(fl, GCell)
         THEN Staged(TempRGlobalRefMut, borrow_mut(fl, GCell))
         ELSE StageErr("rglobal borrow conflict", fl)

\* FromArgRef for &T :: make_temp (the default implementation)
make_temp_ref(args, i, fl) ==
    IF At(args, i).tag = "RData"
    THEN rdata_borrow(fl, At(args, i).v)
    ELSE StageErr("expected &T", fl)

\* FromArgRef for &mut T :: make_temp (the default implementation)
make_temp_ref_mut(args, i, fl) ==
    IF At(args, i).tag = "RData"
    THEN rdata_borrow_mut(fl, At(args, i).v)
    ELSE StageErr("expected &mut T", fl)

\* FromArgRef for &T where T: RGlobal :: make_temp
make_temp_rglobal(fl, reg) == try_rglobal(fl, reg)

\* make_temp_rglobal_mut taking the shared borrow of try_rglobal
make_temp_rglobal_mut_shared(fl, reg) == try_rglobal(fl, reg)

\* FromArgRef for &mut T where T: RGlobal :: make_temp
make_temp_rglobal_mut(fl, reg) == try_rglobal_mut(fl, reg)

\* the parameter types that index args[i] without a length check
IndexesArgs(base) == base \in {"Val", "Slice", "Ref", "RefMut"}

make_temp_base(base, args, i, fl, reg) ==
    IF IndexesArgs(base) /\ i >= Len(args)
    THEN StagePanic("index out of bounds", fl)
    ELSE CASE base = "Val" -> make_temp_val(args, i, fl)
           [] base = "Rest" -> make_temp_rest(args, i, fl)
           [] base = "Slice" -> make_temp_slice(args, i, fl)
           [] base = "Ref" -> make_temp_ref(args, i, fl)
           [] base = "RefMut" -> make_temp_ref_mut(args, i, fl)
           [] base = "GRef" -> make_temp_rglobal(fl, reg)
           [] base = "GRefMut" -> make_temp_rglobal_mut(fl, reg)

\* make_temp_option without the test for Slot::Nil
make_temp_option_ignores_nil(base, args, i, fl, reg) ==
    IF i >= Len(args)
    THEN Staged(TempNone, fl)
    ELSE make_temp_base(base, args, i, fl, reg)

\* FromArg / FromArgRef for Option<T> :: make_temp
make_temp_option(base, args, i, fl, reg) ==
    IF i >= Len(args) \/ At(args, i).tag = "Nil"
    THEN Staged(TempNone, fl)
    ELSE make_temp_base(base, args, i, fl, reg)

make_temp(p, args, i, fl, reg) ==
    IF p.opt THEN make_temp_option(p.base, args, i, fl, reg)
    ELSE make_temp_base(p.base, args, i, fl, reg)

\* ------------------------------------------------------------------------
\* from_arg: the projection step of each parameter type
\* ------------------------------------------------------------------------
\* i32::from_slot
from_slot_ok(slot) == slot.tag = "Int"

\* "ok" or the error kind returned
from_arg(p, temp) ==
    CASE temp.kind = "None" -> "ok"
      [] temp.kind = "Slot" -> IF from_slot_ok(temp.slot) THEN "ok" ELSE "expected i32"
      [] temp.kind = "Rest" ->
           IF \A j \in 1..Len(temp.rest) : from_slot_ok(temp.rest[j])
           THEN "ok" ELSE "expected i32"
      [] temp.kind = "Slice" ->
           IF temp.slot.tag # "Arr" THEN "expected a SmallVec"
           ELSE IF \A j \in 1..Len(arr_items(temp.slot.v)) :
                      from_slot_ok(arr_items(temp.slot.v)[j])
           THEN "ok" ELSE "expected i32"
      [] OTHER -> "ok"

\* the integers handed to the native function for a temporary that from_arg
\* accepts: the i32 of a value, the elements of a Rest or of a slice, none for
\* None and for a reference
from_arg_val(temp) ==
    CASE temp.kind = "Slot" -> <<temp.slot.v>>
      [] temp.kind = "Rest" -> [j \in 1..Len(temp.rest) |-> temp.rest[j].v]
      [] temp.kind = "Slice" ->
           [j \in 1..Len(arr_items(temp.slot.v)) |-> arr_items(temp.slot.v)[j].v]
      [] OTHER -> <<>>

\* the number of from_slot calls from_arg makes for a temporary it accepts
from_arg_conversions(temp) ==
    CASE temp.kind = "Slot" -> 1
      [] temp.kind = "Rest" -> Len(temp.rest)
      [] temp.kind = "Slice" -> slice_conversions(temp.slot)
      [] OTHER -> 0

\* ------------------------------------------------------------------------
\* wrapped_call
\* ------------------------------------------------------------------------
\* bounds_check with `>=` for `>` in the second check
bounds_check_inclusive_max(min, max, n) ==
    IF n < min THEN ArityErr("too few arguments", n, min)
    ELSE IF n >= max THEN ArityErr("too many arguments", n, max)
    ELSE OkResult

\* bounds_check without the check of the minimum
bounds_check_skips_min(min, max, n) ==
    IF n > max THEN ArityErr("too many arguments", n, max)
    ELSE OkResult

\* the two checks at the head of wrapped_call
bounds_check(min, max, n) ==
    IF n < min THEN ArityErr("too few arguments", n, min)
    ELSE IF n > max THEN ArityErr("too many arguments", n, max)
    ELSE OkResult

\* next_arg_i without the test for ArgType::RGlobal
next_arg_i_always(p, arg_i) == arg_i + 1

\* next_arg_i never advancing
next_arg_i_stays(p, arg_i) == arg_i

\* the update of arg_i after the make_temp of parameter p
next_arg_i(p, arg_i) == IF arg_type(p) # "RGlobal" THEN arg_i + 1 ELSE arg_i

\* IntoVal for Result<T, E>, applied to the output of the native function
NativeOutputs == {"value", "gerror", "foreign"}
output_into_slot(output) ==
    CASE output = "value" -> OkResult
      [] output = "gerror" -> ErrResult("GError")
      [] output = "foreign" -> ErrResult("IntoVal encountered E")

Event(ev, k, i) == [ev |-> ev, k |-> k, i |-> i]

\* an activation record of wrapped_call: pc is "stage" (the make_temp
\* loop), "project" (the from_arg calls) or "body" (inside self.f); vals are
\* the projected arguments; held_conv and conv count the from_slot calls
\* made while the argument slice was borrowed and after its release
NewFrame(args) ==
    [pc |-> "stage", args |-> args, holds_args |-> TRUE, k |-> 1, arg_i |-> 0,
     temps |-> <<>>, vals |-> <<>>, log |-> <<Event("bounds_check", 0, 0)>>,
     held_conv |-> 0, conv |-> 0]

Top == stack[Len(stack)]
Params == wrapper.params
Running == panicked = ""
Idle == Running /\ stack = <<>>
SetTop(f) == [stack EXCEPT ![Len(stack)] = f]
Pop == SubSeq(stack, 1, Len(stack) - 1)

\* ------------------------------------------------------------------------
\* Actions
\* ------------------------------------------------------------------------
Init ==
    /\ wrapper = NoWrapper
    /\ registered = FALSE
    /\ flag = [c \in Cells |-> 0]
    /\ stack_refs = 0
    /\ stack = <<>>
    /\ ret = NoResult
    /\ panicked = ""
    /\ conv = NoConv

\* glsp::add_rglobal: the singleton of type G is registered
AddRGlobal ==
    /\ Idle /\ ~wrapper.built /\ ~registered
    /\ registered' = TRUE
    /\ UNCHANGED <<wrapper, flag, stack_refs, stack, ret, panicked, conv>>

\* wrap(f) for a native function f with the parameter list ps; the unwrap()
\* in calculate_arg_limits panics when arg_limits_fn returns Err
wrap(ps) ==
    /\ Idle /\ ~wrapper.built
    /\ LET lim == calculate_arg_limits(ps)
       IN IF lim.ok
          THEN /\ wrapper' = [built |-> TRUE, params |-> ps, min |-> lim.min, max |-> lim.max]
               /\ UNCHANGED panicked
          ELSE /\ panicked' = lim.err
               /\ wrapper' = [NoWrapper EXCEPT !.params = ps]
    /\ UNCHANGED <<registered, flag, stack_refs, stack, ret, conv>>

\* wrapped_call that goes on to the staging steps whatever the bounds check says
wrapped_call_stages_first(args) ==
    /\ Running /\ wrapper.built
    /\ Len(stack) < MaxDepth
    /\ IF stack = <<>> THEN TRUE ELSE Top.pc = "body"
    /\ IF stack_refs > 0
       THEN /\ panicked' = "register stack already borrowed"
            /\ UNCHANGED <<stack, stack_refs, ret>>
       ELSE /\ UNCHANGED panicked
            /\ ret' = NoResult
            /\ stack' = Append(stack, NewFrame(args))
            /\ stack_refs' = stack_refs + 1
    /\ UNCHANGED <<wrapper, registered, flag, conv>>

\* the wrapper is called with args, from the host (no call in progress) or from
\* the body of a native function; the caller pushes args to the register stack
\* and hands wrapped_call a Ref to them, and wrapped_call checks the bounds
wrapped_call(args) ==
    /\ Running /\ wrapper.built
    /\ Len(stack) < MaxDepth
    /\ IF stack = <<>> THEN TRUE ELSE Top.pc = "body"
    /\ IF stack_refs > 0
       THEN /\ panicked' = "register stack already borrowed"
            /\ UNCHANGED <<stack, stack_refs, ret>>
       ELSE LET checked == bounds_check(wrapper.min, wrapper.max, Len(args))
            IN /\ UNCHANGED panicked
               /\ IF checked.status = "err"
                  THEN /\ ret' = checked
                       /\ UNCHANGED <<stack, stack_refs>>
                  ELSE /\ ret' = NoResult
                       /\ stack' = Append(stack, NewFrame(args))
                       /\ stack_refs' = stack_refs + 1
    /\ UNCHANGED <<wrapper, registered, flag, conv>>

\* ReturnErr with the temporaries leaked instead of dropped
ReturnErr_leaks_temps(kind) ==
    /\ ret' = ErrResult(kind)
    /\ flag' = flag
    /\ stack_refs' = IF Top.holds_args THEN stack_refs - 1 ELSE stack_refs
    /\ stack' = Pop
    /\ UNCHANGED panicked

\* an Err leaves wrapped_call: its locals (the temporaries and, when still
\* held, the argument slice) are dropped
ReturnErr(kind) ==
    /\ ret' = ErrResult(kind)
    /\ flag' = drop_temps(flag, Top.temps)
    /\ stack_refs' = IF Top.holds_args THEN stack_refs - 1 ELSE stack_refs
    /\ stack' = Pop
    /\ UNCHANGED panicked

\* Stage with the conversion done at once, while the argument slice is
\* borrowed: T_k::from_arg is called right after T_k::make_temp
Stage_converts_eagerly ==
    /\ Running /\ stack # <<>> /\ Top.pc = "stage" /\ Top.k <= Len(Params)
    /\ LET p == Params[Top.k]
           r == make_temp(p, Top.args, Top.arg_i, flag, registered)
       IN CASE r.out = "ok" /\ from_arg(p, r.temp) = "ok" ->
                 /\ stack' = SetTop([Top EXCEPT
                        !.temps = Append(@, r.temp),
                        !.vals = Append(@, from_arg_val(r.temp)),
                        !.held_conv = @ + r.conv + from_arg_conversions(r.temp),
                        !.arg_i = next_arg_i(p, @),
                        !.k = @ + 1,
                        !.log = @ \o <<Event("make_temp", Top.k, Top.arg_i),
                                       Event("from_arg", Top.k, 0)>>])
                 /\ flag' = r.fl
                 /\ UNCHANGED <<stack_refs, ret, panicked>>
            [] r.out = "ok" /\ from_arg(p, r.temp) # "ok" ->
                 ReturnErr(from_arg(p, r.temp))
            [] r.out = "err" -> ReturnErr(r.err)
            [] r.out = "panic" ->
                 /\ panicked' = r.err
                 /\ UNCHANGED <<stack, flag, stack_refs, ret>>
    /\ UNCHANGED <<wrapper, registered, conv>>

\* one expansion of: let mut temp_k = T_k::make_temp(&args, arg_i)?; ...
Stage ==
    /\ Running /\ stack # <<>> /\ Top.pc = "stage" /\ Top.k <= Len(Params)
    /\ LET p == Params[Top.k]
           r == make_temp(p, Top.args, Top.arg_i, flag, registered)
       IN CASE r.out = "ok" ->
                 /\ stack' = SetTop([Top EXCEPT
                        !.temps = Append(@, r.temp),
                        !.held_conv = @ + r.conv,
                        !.arg_i = next_arg_i(p, @),
                        !.k = @ + 1,
                        !.log = Append(@, Event("make_temp", Top.k, Top.arg_i))])
                 /\ flag' = r.fl
                 /\ UNCHANGED <<stack_refs, ret, panicked>>
            [] r.out = "err" -> ReturnErr(r.err)
            [] r.out = "panic" ->
                 /\ panicked' = r.err
                 /\ UNCHANGED <<stack, flag, stack_refs, ret>>
    /\ UNCHANGED <<wrapper, registered, conv>>

\* Release without drop(args): the argument slice stays borrowed
Release_no_drop ==
    /\ Running /\ stack # <<>> /\ Top.pc = "stage" /\ Top.k > Len(Params)
    /\ stack' = SetTop([Top EXCEPT !.pc = "project", !.k = 1])
    /\ UNCHANGED <<wrapper, registered, flag, stack_refs, ret, panicked, conv>>

\* drop(args)
Release ==
    /\ Running /\ stack # <<>> /\ Top.pc = "stage" /\ Top.k > Len(Params)
    /\ stack' = SetTop([Top EXCEPT
           !.pc = "project", !.k = 1, !.args = <<>>, !.holds_args = FALSE,
           !.log = Append(@, Event("drop", 0, 0))])
    /\ stack_refs' = stack_refs - 1
    /\ UNCHANGED <<wrapper, registered, flag, ret, panicked, conv>>

\* one argument expression of the call: T_k::from_arg(&mut temp_k)?
Project ==
    /\ Running /\ stack # <<>> /\ Top.pc = "project" /\ Top.k <= Len(Params)
    /\ LET r == from_arg(Params[Top.k], Top.temps[Top.k])
           n == from_arg_conversions(Top.temps[Top.k])
       IN IF r = "ok"
          THEN /\ stack' = SetTop([Top EXCEPT
                      !.k = @ + 1,
                      !.vals = Append(@, from_arg_val(Top.temps[Top.k])),
                      !.held_conv = IF Top.holds_args THEN @ + n ELSE @,
                      !.conv = IF Top.holds_args THEN @ ELSE @ + n,
                      !.log = Append(@, Event("from_arg", Top.k, 0))])
               /\ UNCHANGED <<flag, stack_refs, ret, panicked>>
          ELSE ReturnErr(r)
    /\ UNCHANGED <<wrapper, registered, conv>>

\* (self.f)(..) is entered with the projected arguments
Invoke ==
    /\ Running /\ stack # <<>> /\ Top.pc = "project" /\ Top.k > Len(Params)
    /\ stack' = SetTop([Top EXCEPT
           !.pc = "body", !.log = Append(@, Event("invoke", 0, 0))])
    /\ UNCHANGED <<wrapper, registered, flag, stack_refs, ret, panicked, conv>>

\* Return with the temporaries leaked instead of dropped
Return_leaks_temps(output) ==
    /\ Running /\ stack # <<>> /\ Top.pc = "body"
    /\ ret' = output_into_slot(output)
    /\ stack' = Pop
    /\ UNCHANGED <<wrapper, registered, flag, stack_refs, panicked, conv>>

\* self.f returns output; F::output_into_slot(output) is the value of
\* wrapped_call, whose temporaries are dropped as it returns
Return(output) ==
    /\ Running /\ stack # <<>> /\ Top.pc = "body"
    /\ ret' = output_into_slot(output)
    /\ flag' = drop_temps(flag, Top.temps)
    /\ stack' = Pop
    /\ UNCHANGED <<wrapper, registered, stack_refs, panicked, conv>>

RECURSIVE SumSeq(_)
SumSeq(xs) == IF xs = <<>> THEN 0 ELSE xs[1] + SumSeq(Tail(xs))

RECURSIVE Flatten(_)
Flatten(xss) == IF xss = <<>> THEN <<>> ELSE xss[1] \o Flatten(Tail(xss))

\* fn f(a: i32, b: Option<i32>, rest: Rest<i32>) -> i32: the sum of the
\* integers it is given
SumParams == <<PVal, POptVal, PRest>>
f_sum(vals) == SumSeq(Flatten(vals))

\* self.f is f_sum: its i32 goes through F::output_into_slot and
\* wrapped_call returns, dropping its temporaries
ReturnSum ==
    /\ Running /\ stack # <<>> /\ Top.pc = "body"
    /\ ret' = OkVal(f_sum(Top.vals))
    /\ flag' = drop_temps(flag, Top.temps)
    /\ stack' = Pop
    /\ UNCHANGED <<wrapper, registered, stack_refs, panicked, conv>>

\* a call from the host: no wrapped_call is in progress
host_call(args) == stack = <<>> /\ wrapped_call(args)

DataSignatures == SeqsUpTo(DataParamTypes, MaxParams)
GlobalSignatures == SeqsUpTo(GlobalParamTypes, MaxParams)
AritySignatures == SeqsUpTo(ArityParamTypes, MaxArity)
ArgLists == SeqsUpTo(Slots, MaxArgs)

\* the steps of a wrapped_call in progress
CallSteps ==
    \/ Stage
    \/ Release
    \/ Project
    \/ Invoke
    \/ \E output \in NativeOutputs : Return(output)

\* wrapped functions over values and RData references
Next ==
    \/ \E ps \in DataSignatures : wrap(ps)
    \/ \E args \in ArgLists : wrapped_call(args)
    \/ CallSteps

Spec == Init /\ [][Next]_vars

\* wrapped functions over values and references to the RGlobal singleton
NextRGlobal ==
    \/ AddRGlobal
    \/ \E ps \in GlobalSignatures : wrap(ps)
    \/ \E args \in ArgLists : wrapped_call(args)
    \/ CallSteps

SpecRGlobal == Init /\ [][NextRGlobal]_vars

\* wrap() alone, over every list of ArgTypes up to MaxArity
NextArity == \E ps \in AritySignatures : wrap(ps)

SpecArity == Init /\ [][NextArity]_vars

\* wrapped functions over values and RData references, called with boxes of
\* the native type T and of another native type
TypedSignatures == SeqsUpTo(TypedParamTypes, MaxParams)
TypedSlots == {SlotInt(1)} \cup {SlotRData(b) : b \in Boxes \cup OtherBoxes}
TypedArgLists == SeqsUpTo(TypedSlots, MaxArgs)

NextTyped ==
    \/ \E ps \in TypedSignatures : wrap(ps)
    \/ \E args \in TypedArgLists : wrapped_call(args)
    \/ CallSteps

SpecTyped == Init /\ [][NextTyped]_vars

\* wrapped functions over values, Rest and slices, called with integers and
\* arrays
DeferredSignatures == SeqsUpTo(DeferredParamTypes, MaxParams)
DeferredSlots == {SlotInt(1)} \cup {SlotArr(a) : a \in Arrs}
DeferredArgLists == SeqsUpTo(DeferredSlots, MaxArgs)

NextDeferred ==
    \/ \E ps \in DeferredSignatures : wrap(ps)
    \/ \E args \in DeferredArgLists : wrapped_call(args)
    \/ CallSteps

SpecDeferred == Init /\ [][NextDeferred]_vars

\* the summing function, called from the host
SumSlots == {SlotNil, SlotInt(10), SlotInt(20), SlotInt(30), SlotInt(40)}
SumArgLists == SeqsUpTo(SumSlots, MaxSumArgs)

NextSum ==
    \/ wrap(SumParams)
    \/ \E args \in SumArgLists : host_call(args)
    \/ Stage
    \/ Release
    \/ Project
    \/ Invoke
    \/ ReturnSum

SpecSum == Init /\ [][NextSum]_vars

\* ------------------------------------------------------------------------
\* Properties of the arity calculator and of wrap()
\* ------------------------------------------------------------------------
Positions(ps, types) == {i \in 1..Len(ps) : arg_type(ps[i]) \in types}
CountOf(ps, types) == Cardinality(Positions(ps, types))
HasRest(ps) == Positions(ps, {"Rest"}) # {}
\* a Required or Optional parameter stands after a Rest parameter
AfterRest(ps) ==
    \E i \in Positions(ps, {"Rest"}) : \E j \in Positions(ps, {"Normal", "Option"}) : i < j
\* a Required parameter stands after an Optional parameter
RequiredAfterOptional(ps) ==
    \E i \in Positions(ps, {"Option"}) : \E j \in Positions(ps, {"Normal"}) : i < j
\* the Optional parameters that stand before some Required parameter
Absorbed(ps) ==
    {i \in Positions(ps, {"Option"}) : \E j \in Positions(ps, {"Normal"}) : i < j}
\* wrap() has been called
Attempted == wrapper.built \/ panicked # ""
RestPanics == {"Rest<T> followed by a normal argument",
               "Rest<T> followed by an Option<T> argument"}

C3_AfterRestFailsAtConstruction ==
    AfterRest(wrapper.params) =>
        /\ ~wrapper.built
        /\ panicked \in RestPanics
        /\ stack = <<>> /\ ret = NoResult

C3_Witness ==
    /\ ArgTypes(wrapper.params) = <<"Rest", "Normal">>
    /\ ~wrapper.built
    /\ panicked = "Rest<T> followed by a normal argument"

Frames == {stack[d] : d \in 1..Len(stack)}
Positional(ps) == SelectSeq(ps, LAMBDA p : arg_type(p) # "RGlobal")
MakeTempEvents(f) == {f.log[i] : i \in {j \in 1..Len(f.log) : f.log[j].ev = "make_temp"}}
HasEvent(f, ev) == \E i \in 1..Len(f.log) : f.log[i].ev = ev
InBody == stack # <<>> /\ Top.pc = "body"

\* C5: RGlobal parameters take no argument slot: the cached limits are those
\* of the parameter list without its RGlobal parameters, and the k-th
\* non-RGlobal parameter (0-based) is staged from argument index k, however
\* many RGlobal parameters precede it.
C5_RGlobalTakesNoSlot ==
    /\ wrapper.built =>
          /\ wrapper.min = calculate_arg_limits(Positional(wrapper.params)).min
          /\ wrapper.max = calculate_arg_limits(Positional(wrapper.params)).max
          /\ ~HasRest(wrapper.params) => wrapper.max = Len(Positional(wrapper.params))
    /\ \A f \in Frames : \A e \in MakeTempEvents(f) :
          arg_type(Params[e.k]) # "RGlobal" =>
              e.i = Cardinality({j \in 1..(e.k - 1) : arg_type(Params[j]) # "RGlobal"})

C5_Witness ==
    /\ stack # <<>>
    /\ Len(Params) = 2
    /\ arg_type(Params[1]) = "RGlobal" /\ arg_type(Params[2]) = "Normal"
    /\ Event("make_temp", 2, 0) \in MakeTempEvents(Top)

\* C6: a wrapped_call with n arguments and cached bounds (min, max) returns
\* the "too few" error with n and min exactly when n < min, the "too many"
\* error with n and max exactly when n > max, and starts staging otherwise;
\* with a Rest parameter it never returns "too many".
C6_BoundsCheck ==
    [][\A args \in ArgLists :
          (wrapped_call(args) /\ panicked' = "") =>
              LET n == Len(args)
              IN /\ (n < wrapper.min) <=> (ret' = ArityErr("too few arguments", n, wrapper.min))
                 /\ (n > wrapper.max) <=> (ret' = ArityErr("too many arguments", n, wrapper.max))
                 /\ (wrapper.min <= n /\ n <= wrapper.max) <=>
                       (ret' = NoResult /\ stack' = Append(stack, NewFrame(args)))
                 /\ (n < wrapper.min \/ n > wrapper.max) => stack' = stack
                 /\ HasRest(wrapper.params) => ret'.kind # "too many arguments"]_vars

C6_Witness ==
    /\ Len(wrapper.params) = 1
    /\ ret = ArityErr("too many arguments", 2, 1)

\* the place of an event in the order of wrapped_call with n parameters
Rank(e, n) ==
    CASE e.ev = "bounds_check" -> 0
      [] e.ev = "make_temp" -> e.k
      [] e.ev = "drop" -> n + 1
      [] e.ev = "from_arg" -> n + 1 + e.k
      [] e.ev = "invoke" -> 2 * n + 2

\* C7: within one wrapped_call the bounds check comes first, then the
\* make_temp of the parameters in order, then the release of the argument
\* slice, then the from_arg of the parameters in order, then the native
\* function; no from_arg and no invocation happens while the slice is held.
C7_CallOrder ==
    \A f \in Frames :
        LET n == Len(Params)
        IN /\ f.log[1].ev = "bounds_check"
           /\ \A i \in 1..(Len(f.log) - 1) : Rank(f.log[i], n) < Rank(f.log[i + 1], n)
           /\ f.holds_args <=> ~HasEvent(f, "drop")
           /\ f.holds_args => ~HasEvent(f, "from_arg") /\ ~HasEvent(f, "invoke")
           /\ f.pc = "stage" <=> f.holds_args
           /\ f.pc = "project" => Len(f.log) = n + 2 + (f.k - 1)
           /\ f.pc = "body" <=> HasEvent(f, "invoke")
           /\ f.pc = "body" => Len(f.log) = 2 * n + 3

C7_Witness ==
    /\ InBody
    /\ Len(Params) = 2
    /\ Len(Top.log) = 7

\* the borrows of cell c owned by the temporaries of the calls in progress
RECURSIVE CountTemps(_, _, _)
CountTemps(temps, c, kinds) ==
    IF temps = <<>> THEN 0
    ELSE (IF temps[1].kind \in kinds /\ temps[1].box = c THEN 1 ELSE 0)
         + CountTemps(Tail(temps), c, kinds)

RECURSIVE AllTemps(_)
AllTemps(frames) ==
    IF frames = <<>> THEN <<>> ELSE frames[1].temps \o AllTemps(Tail(frames))

\* C8 as stated: while a native body executes, wrapped_call holds no borrow
\* of the argument buffer and no borrow of any RData.
C8_NoBorrowInBodyAsStated ==
    InBody =>
        /\ stack_refs = 0
        /\ \A b \in Boxes : flag[b] = 0

\* C8 amended: while a native body executes, no wrapped_call in progress
\* holds a borrow of the argument buffer and every parameter of each has
\* been staged into an owned temporary; the RData borrows outstanding are
\* exactly those owned by the RRef / RRefMut temporaries of the calls in
\* progress, which stay held during the body.
C8_NoArgBorrowInBody ==
    InBody =>
        /\ stack_refs = 0
        /\ \A f \in Frames : ~f.holds_args /\ Len(f.temps) = Len(Params)
        /\ \A b \in Boxes :
              LET sh == CountTemps(AllTemps(stack), b, {"RRef"})
                  ex == CountTemps(AllTemps(stack), b, {"RRefMut"})
              IN IF ex > 0 THEN ex = 1 /\ sh = 0 /\ flag[b] = -1
                 ELSE flag[b] = sh

C8_Witness ==
    /\ InBody
    /\ Len(stack) = 2
    /\ \E b \in Boxes : flag[b] = 2

\* C9: the borrow of an RData staged for a &T (&mut T) parameter is shared
\* (exclusive), stays held as long as the call is in progress, and is gone
\* once every wrapped_call has returned: an exclusive borrow then succeeds.
C9_BorrowHeldThenReleased ==
    /\ \A f \in Frames : \A k \in 1..Len(f.temps) :
          /\ Params[k] = PRef =>
                f.temps[k].kind = "RRef" /\ flag[f.temps[k].box] >= 1
          /\ Params[k] = PRefMut =>
                f.temps[k].kind = "RRefMut" /\ flag[f.temps[k].box] = -1
    /\ stack = <<>> => \A b \in Boxes : can_borrow_mut(flag, b)

C9_Witness ==
    /\ Idle
    /\ wrapper.params = <<PRefMut>>
    /\ ret = OkResult

\* C10 as stated: a conflicting borrow at staging makes the call return an
\* error value; it never ends the program with a panic.
C10_ConflictIsErrorValue ==
    panicked \notin {BorrowPanic, BorrowMutPanic}

\* C11 as stated: a &T / &mut T parameter handed an RData box of another
\* native type makes the call return a type-mismatch error value; the program
\* never ends with the panic of a mistyped borrow.
C11_TypeMismatchIsErrorValue ==
    /\ panicked # TypePanic
    /\ \A f \in Frames : \A k \in 1..Len(f.temps) :
          f.temps[k].kind \in {"RRef", "RRefMut"} => f.temps[k].box \in Boxes

\* the argument index at which parameter k of the call f was staged
StagedAt(f, k) == (CHOOSE e \in MakeTempEvents(f) : e.k = k).i
\* parameter k of the call f has been projected
Projected(f, k) == f.pc = "body" \/ (f.pc = "project" /\ k < f.k)
GlobalTemps == {"RGlobalRef", "RGlobalRefMut"}

\* C12: staging a &G / &mut G parameter (G: RGlobal) takes a shared /
\* exclusive borrow of the singleton whatever the arguments are, also when
\* there are none; it is staged only when the singleton is registered and the
\* borrow is free, a refusal is an error value and never a panic, and a call
\* of f(a: &G, b: &mut G), f(a: &mut G, b: &G) or f(a: &mut G, b: &mut G)
\* never gets past staging and returns nothing but an error.
C12_RGlobalExtraction ==
    /\ \A f \in Frames : \A k \in 1..Len(f.temps) :
          /\ Params[k] = PGRef =>
                f.temps[k] = TempRGlobalRef /\ registered /\ flag[GCell] >= 1
          /\ Params[k] = PGRefMut =>
                f.temps[k] = TempRGlobalRefMut /\ registered /\ flag[GCell] = -1
    /\ LET sh == CountTemps(AllTemps(stack), GCell, {"RGlobalRef"})
           ex == CountTemps(AllTemps(stack), GCell, {"RGlobalRefMut"})
       IN IF ex > 0 THEN ex = 1 /\ sh = 0 /\ flag[GCell] = -1
          ELSE flag[GCell] = sh
    /\ wrapper.built => panicked = ""
    /\ (wrapper.built /\ wrapper.params \in
            {<<PGRef, PGRefMut>>, <<PGRefMut, PGRef>>, <<PGRefMut, PGRefMut>>}) =>
          /\ \A f \in Frames : f.pc = "stage" /\ Len(f.temps) < 2
          /\ ret.status \in {"none", "err"}
          /\ ret.status = "err" =>
                ret.kind \in {"rglobal not registered", "rglobal borrow conflict",
                              "too many arguments"}

C12_Witness ==
    /\ Idle /\ registered
    /\ wrapper.params = <<PGRef, PGRefMut>>
    /\ ret = ErrResult("rglobal borrow conflict")

\* C13: while the arguments are held, an Optional parameter staged at index
\* i is None exactly when i >= the number of arguments or argument i is nil;
\* otherwise its temporary is the one the wrapped kind stages for argument i
\* (a clone of the slot for a value, a borrow of the box for &T), so that a
\* call whose argument the wrapped kind rejects does not go on with None: it
\* is never staged with a non-RData argument for Option<&T>, and once
\* projected an Option<i32> is None for None and the integer of its slot
\* otherwise.
C13_OptionalExtraction ==
    \A f \in Frames : \A k \in 1..Len(f.temps) :
        Params[k].opt =>
            /\ f.holds_args =>
                  LET i == StagedAt(f, k)
                      absent == IF i >= Len(f.args) THEN TRUE ELSE At(f.args, i) = SlotNil
                  IN /\ (f.temps[k] = TempNone) <=> absent
                     /\ ~absent /\ Params[k].base = "Val" =>
                           f.temps[k] = TempSlot(At(f.args, i))
                     /\ ~absent /\ Params[k].base = "Ref" =>
                           /\ At(f.args, i).tag = "RData"
                           /\ f.temps[k] = TempRRef(At(f.args, i).v)
            /\ Projected(f, k) =>
                  IF f.temps[k] = TempNone THEN f.vals[k] = <<>>
                  ELSE Params[k].base = "Val" =>
                          /\ f.temps[k].slot.tag = "Int"
                          /\ f.vals[k] = <<f.temps[k].slot.v>>

C13_Witness ==
    /\ stack # <<>> /\ Top.pc = "stage"
    /\ Params = <<POptVal, POptRef>>
    /\ Top.args = <<SlotNil, SlotRData(1)>>
    /\ Top.temps = <<TempNone, TempRRef(1)>>

\* C14: a Rest parameter staged at index i of n arguments holds clones of
\* arguments i .. n-1 in that order, max(0, n - i) of them (none when
\* i >= n), and once projected the collection handed to the body is the
\* conversions of exactly those clones, in that order.
C14_RestExtraction ==
    \A f \in Frames : \A k \in 1..Len(f.temps) :
        Params[k] = PRest =>
            /\ f.temps[k].kind = "Rest"
            /\ f.holds_args =>
                  LET i == StagedAt(f, k)
                      n == Len(f.args)
                      m == IF n - i > 0 THEN n - i ELSE 0
                  IN /\ Len(f.temps[k].rest) = m
                     /\ \A j \in 1..m : f.temps[k].rest[j] = f.args[i + j]
            /\ Projected(f, k) =>
                  /\ Len(f.vals[k]) = Len(f.temps[k].rest)
                  /\ \A j \in 1..Len(f.vals[k]) :
                        /\ f.temps[k].rest[j].tag = "Int"
                        /\ f.vals[k][j] = f.temps[k].rest[j].v

C14_Witness ==
    /\ InBody
    /\ Params = <<PVal, PRest>>
    /\ Top.temps = <<TempSlot(SlotInt(1)), TempRest(<<SlotInt(1)>>)>>
    /\ Top.vals = <<(<<1>>), (<<1>>)>>

\* the from_slot calls due for the parameters of f projected so far
RECURSIVE ConversionsDue(_, _)
ConversionsDue(f, k) ==
    IF k = 0 THEN 0
    ELSE (IF Projected(f, k) THEN from_arg_conversions(f.temps[k]) ELSE 0)
         + ConversionsDue(f, k - 1)

\* C15: for by-value, Rest and slice parameters the staging step only clones
\* argument slots: no from_slot call is made while the argument slice is
\* borrowed, every one of them is made by the projection step after the
\* release, and a re-entrant call never finds the register stack borrowed.
C15_DeferredConversion ==
    /\ panicked # "register stack already borrowed"
    /\ \A f \in Frames :
          /\ f.held_conv = 0
          /\ f.holds_args => f.conv = 0
          /\ f.conv = ConversionsDue(f, Len(f.temps))
          /\ f.holds_args =>
                \A k \in 1..Len(f.temps) :
                    LET i == StagedAt(f, k)
                    IN CASE Params[k] = PVal -> f.temps[k] = TempSlot(At(f.args, i))
                         [] Params[k] = PSlice -> f.temps[k] = TempSlice(At(f.args, i))
                         [] Params[k] = PRest ->
                              f.temps[k] = TempRest(SubSeq(f.args, i + 1, Len(f.args)))

C15_Witness ==
    /\ InBody
    /\ Params = <<PSlice, PRest>>
    /\ Top.temps = <<TempSlice(SlotArr(1)), TempRest(<<SlotInt(1)>>)>>
    /\ Top.held_conv = 0 /\ Top.conv = 4

AllInts(args) == \A j \in 1..Len(args) : args[j].tag = "Int"
ArgInts(args) == [j \in 1..Len(args) |-> args[j].v]
\* the slots that the temporaries of a call hold, in order
RECURSIVE TempSlots(_)
TempSlots(temps) ==
    IF temps = <<>> THEN <<>>
    ELSE (CASE temps[1].kind = "Slot" -> <<temps[1].slot>>
            [] temps[1].kind = "Rest" -> temps[1].rest
            [] OTHER -> <<>>) \o TempSlots(Tail(temps))
Staged3(f) == f.pc = "stage" /\ f.k > Len(SumParams)

\* C16: f(a: i32, b: Option<i32>, rest: Rest<i32>) has arg_limits
\* (1, usize::MAX); a call with no argument returns the "too few" error with
\* received 0 and bound 1 and starts no call, and that is the only call the
\* bounds check turns away: a call with n >= 1 arguments is started; when
\* the n >= 1 arguments are integers the temporaries staged for a, b and rest
\* hold exactly these integers in order, they are not changed afterwards, and
\* the call, whenever it ends, returns Ok with their sum, never an error and
\* never a panic.
C16_SumScenario ==
    [][/\ wrapper'.built => (wrapper'.min = 1 /\ wrapper'.max = USIZE_MAX)
       /\ host_call(<<>>) =>
             ret' = ArityErr("too few arguments", 0, 1) /\ stack' = <<>>
       /\ (Idle /\ wrapper.built) =>
             \/ stack' = <<>> /\ ret' = ArityErr("too few arguments", 0, 1)
             \/ /\ Len(stack') = 1 /\ Len(stack'[1].args) >= 1
                /\ stack'[1] = NewFrame(stack'[1].args)
       /\ (stack # <<>> /\ Top.pc = "stage" /\ AllInts(Top.args)) =>
             /\ panicked' = "" /\ stack' # <<>>
             /\ stack'[1].pc = "stage" => stack'[1].args = Top.args
             /\ Staged3(Top) => TempSlots(Top.temps) = Top.args
       /\ (stack # <<>> /\ Top.pc # "stage" /\ AllInts(TempSlots(Top.temps))) =>
             /\ panicked' = ""
             /\ stack' # <<>> => stack'[1].temps = Top.temps
             /\ stack' = <<>> => ret' = OkVal(SumSeq(ArgInts(TempSlots(Top.temps))))]_vars

C16_Witness ==
    /\ Idle
    /\ ret = OkVal(100)
    /\ wrapper.params = SumParams

\* ------------------------------------------------------------------------
\* Integer conversions: IntoVal / FromVal of the primitive integer types and
\* IntoVal of GIterLen
\* ------------------------------------------------------------------------
IntTypes == {"i8", "i16", "i32", "i64", "i128", "isize",
             "u8", "u16", "u32", "u64", "u128", "usize"}
SignedTypes == {"i8", "i16", "i32", "i64", "i128", "isize"}

\* the width of t: TLC integers are 32 bits wide, so that an i64 or a u32
\* does not fit in them, and the widths 8, 16, 32, 64 and 128 of the source
\* (isize and usize being 64 bits wide) are scaled to 2, 3, 4, 5 and 6 bits,
\* which keeps the order and the nesting of the ranges; the runtime's Int is
\* the i32 of the model, 4 bits wide
Bits(t) ==
    CASE t \in {"i8", "u8"} -> 2
      [] t \in {"i16", "u16"} -> 3
      [] t \in {"i32", "u32"} -> 4
      [] t \in {"i64", "u64", "isize", "usize"} -> 5
      [] t \in {"i128", "u128"} -> 6
MinOf(t) == IF t \in SignedTypes THEN -(2 ^ (Bits(t) - 1)) ELSE 0
MaxOf(t) == IF t \in SignedTypes THEN 2 ^ (Bits(t) - 1) - 1 ELSE 2 ^ Bits(t) - 1
ValuesOf(t) == MinOf(t)..MaxOf(t)

\* `x as t`: the value is wrapped to the width of t
as_cast(x, t) ==
    LET m == 2 ^ Bits(t)
        r == x % m
    IN IF t \in SignedTypes /\ r > MaxOf(t) THEN r - m ELSE r

\* a GResult of a conversion: Ok(Val::Int(v)) or Ok(Val::Sym) for into_val,
\* Ok(v) for from_val, or the error
ConvOk(tag, v) ==
    [ok |-> TRUE, tag |-> tag, v |-> v, err |-> "", expected |-> "", received |-> "",
     value |-> 0]
ConvErr(err, expected, received, value) ==
    [ok |-> FALSE, tag |-> "", v |-> 0, err |-> err, expected |-> expected,
     received |-> received, value |-> value]
RangeErr(x) == ConvErr("outside the range of an i32", "", "", x)
IntValueErr(t, i) == ConvErr("received an int with value", t, "", i)
TypeErr(t, slot) == ConvErr("expected type", t, slot.tag, 0)

\* impl_into_val_infallible!: Ok(Val::Int(self.into()))
InfallibleIntoTypes == {"i8", "i16", "i32", "u8", "u16"}
into_val_infallible(t, x) == ConvOk("Int", as_cast(x, "i32"))

\* i32::try_from(x)
try_into_i32(x) ==
    IF MinOf("i32") <= x /\ x <= MaxOf("i32")
    THEN [ok |-> TRUE, v |-> as_cast(x, "i32")]
    ELSE [ok |-> FALSE, v |-> 0]

\* into_val_bounded_int with `self as i32` for the checked try_into
into_val_bounded_int_wrapping(t, x) == ConvOk("Int", as_cast(x, "i32"))

\* impl_into_val_bounded_int!
into_val_bounded_int(t, x) ==
    IF try_into_i32(x).ok THEN ConvOk("Int", try_into_i32(x).v) ELSE RangeErr(x)

into_val(t, x) ==
    IF t \in InfallibleIntoTypes THEN into_val_infallible(t, x)
    ELSE into_val_bounded_int(t, x)

\* IntoVal for GIterLen: Exact(len) is Val::Int(len as i32), Infinite and
\* Unknown are symbols
GIterLens == {[variant |-> "Exact", len |-> n] : n \in ValuesOf("usize")}
                 \cup {[variant |-> "Infinite", len |-> 0], [variant |-> "Unknown", len |-> 0]}
giter_len_into_val(l) ==
    IF l.variant = "Exact" THEN ConvOk("Int", as_cast(l.len, "i32"))
    ELSE ConvOk("Sym", 0)

\* impl_from_val_infallible!: Val::Int(interior) => Ok(interior as $t)
InfallibleFromTypes == {"i32", "i64", "i128", "isize"}
from_val_infallible(t, val) ==
    IF val.tag = "Int" THEN ConvOk("", as_cast(val.v, t)) ELSE TypeErr(t, val)

\* from_val_int_fallible_small without the guard of the first arm
from_val_int_fallible_small_unguarded(t, val) ==
    IF val.tag = "Int" THEN ConvOk("", as_cast(val.v, t)) ELSE TypeErr(t, val)

\* impl_from_val_int_fallible_small!
SmallTypes == {"i8", "i16", "u8", "u16"}
from_val_int_fallible_small(t, val) ==
    IF val.tag = "Int"
    THEN IF val.v >= as_cast(MinOf(t), "i32") /\ val.v <= as_cast(MaxOf(t), "i32")
         THEN ConvOk("", as_cast(val.v, t))
         ELSE IntValueErr(t, val.v)
    ELSE TypeErr(t, val)

\* impl_from_val_int_fallible_large!
LargeTypes == {"u32", "u64", "u128", "usize"}
from_val_int_fallible_large(t, val) ==
    IF val.tag = "Int"
    THEN IF val.v >= 0 THEN ConvOk("", as_cast(val.v, t)) ELSE IntValueErr(t, val.v)
    ELSE TypeErr(t, val)

from_val(t, val) ==
    CASE t \in InfallibleFromTypes -> from_val_infallible(t, val)
      [] t \in SmallTypes -> from_val_int_fallible_small(t, val)
      [] t \in LargeTypes -> from_val_int_fallible_large(t, val)

\* the dynamic values handed to from_val: every Int and some that are no Int
DynVals == {SlotInt(i) : i \in ValuesOf("i32")} \cup {SlotNil, SlotRData(1), SlotArr(1)}

NoOut == ConvOk("", 0)
IntInput(op, t, x, val, len) ==
    [phase |-> "input", op |-> op, t |-> t, x |-> x, val |-> val, len |-> len,
     out |-> NoOut, back |-> NoOut]
NoLen == [variant |-> "Unknown", len |-> 0]
IntInputs ==
    UNION {{IntInput("into_val", t, x, SlotNil, NoLen) : x \in ValuesOf(t)} : t \in IntTypes}
        \cup {IntInput("from_val", t, 0, val, NoLen) : t \in IntTypes, val \in DynVals}
        \cup {IntInput("giter_len", "usize", 0, SlotNil, l) : l \in GIterLens}

ConvInit ==
    /\ wrapper = NoWrapper
    /\ registered = FALSE
    /\ flag = [c \in Cells |-> 0]
    /\ stack_refs = 0
    /\ stack = <<>>
    /\ ret = NoResult
    /\ panicked = ""

InitInt == ConvInit /\ conv \in IntInputs

\* x.into_val()
IntoVal ==
    /\ conv.phase = "input" /\ conv.op = "into_val"
    /\ conv' = [conv EXCEPT !.phase = "converted", !.out = into_val(conv.t, conv.x)]
    /\ UNCHANGED callvars

\* T::from_val(&val) of the value that into_val returned
FromValBack ==
    /\ conv.phase = "converted" /\ conv.out.ok
    /\ conv' = [conv EXCEPT !.phase = "back",
                            !.back = from_val(conv.t, SlotInt(conv.out.v))]
    /\ UNCHANGED callvars

\* T::from_val(&val)
FromVal ==
    /\ conv.phase = "input" /\ conv.op = "from_val"
    /\ conv' = [conv EXCEPT !.phase = "done", !.out = from_val(conv.t, conv.val)]
    /\ UNCHANGED callvars

\* len.into_val() for a GIterLen
GIterLenIntoVal ==
    /\ conv.phase = "input" /\ conv.op = "giter_len"
    /\ conv' = [conv EXCEPT !.phase = "done", !.out = giter_len_into_val(conv.len)]
    /\ UNCHANGED callvars

NextInt ==
    \/ IntoVal
    \/ FromValBack
    \/ FromVal
    \/ GIterLenIntoVal

SpecInt == InitInt /\ [][NextInt]_vars

InI32(x) == MinOf("i32") <= x /\ x <= MaxOf("i32")

\* C17: for every native integer type and every value x of it: if x lies in
\* the range of the runtime's Int, into_val(x) is Ok(Int(x)) and from_val of
\* it is Ok(x); otherwise into_val(x) is the range error reporting x, with no
\* value to convert back.
C17_IntegerRoundTrip ==
    (conv.phase # "input" /\ conv.op = "into_val") =>
        IF InI32(conv.x)
        THEN /\ conv.out = ConvOk("Int", conv.x)
             /\ conv.phase = "back" => conv.back = ConvOk("", conv.x)
        ELSE /\ conv.out = RangeErr(conv.x)
             /\ conv.phase = "converted"

C17_Witness ==
    /\ conv.phase = "back" /\ conv.op = "into_val"
    /\ conv.t = "u64" /\ conv.x = MaxOf("i32")
    /\ conv.back = ConvOk("", MaxOf("i32"))

\* C18 as stated: every into_val of an integer quantity, a primitive integer
\* or the length of GIterLen::Exact, is an error or an Int equal to the
\* source; none is a wrapped or truncated Int.
C18_NoSilentTruncation ==
    /\ (conv.phase # "input" /\ conv.op = "into_val") =>
          (~conv.out.ok \/ conv.out = ConvOk("Int", conv.x))
    /\ (conv.phase # "input" /\ conv.op = "giter_len" /\ conv.len.variant = "Exact") =>
          (~conv.out.ok \/ conv.out = ConvOk("Int", conv.len.len))

\* the range from_val accepts for the target type t
Accepts(t, i) ==
    CASE t \in SmallTypes -> MinOf(t) <= i /\ i <= MaxOf(t)
      [] t \in LargeTypes -> i >= 0
      [] t \in InfallibleFromTypes -> TRUE

\* C19: from_val of a dynamic Int i into the type W is Ok with a value equal
\* to i exactly when i lies in the range W accepts (i8, i16, u8, u16:
\* MIN..MAX; u32, u64, u128, usize: i >= 0; i32, i64, i128, isize: every i);
\* out of it the error reports W and the value i; a value that is no Int gives
\* the type error naming W and the received dynamic type.
C19_ExtractionRangeCheck ==
    (conv.phase = "done" /\ conv.op = "from_val") =>
        IF conv.val.tag = "Int"
        THEN IF Accepts(conv.t, conv.val.v)
             THEN conv.out = ConvOk("", conv.val.v)
             ELSE conv.out = IntValueErr(conv.t, conv.val.v)
        ELSE conv.out = TypeErr(conv.t, conv.val)

C19_Witness ==
    /\ conv.phase = "done" /\ conv.op = "from_val"
    /\ conv.t = "i8" /\ conv.val = SlotInt(MaxOf("i8") + 1)
    /\ conv.out = IntValueErr("i8", MaxOf("i8") + 1)

\* ------------------------------------------------------------------------
\* FromVal for HashMap<K, V, S> and BTreeMap<K, V>
\* ------------------------------------------------------------------------
MapKinds == {"HashMap", "BTreeMap"}
\* the keys of the table, distinct dynamic values
DKeys == 1..MaxKeys
\* what K::from_slot makes of a key: one of two native keys, or an error
NKeys == {"five", "six"}
KeyConversions == [DKeys -> NKeys \cup {"err"}]
\* whether V::from_slot accepts the value stored under a key
ValueConversions == [DKeys -> BOOLEAN]

\* the orders in which tab.iter() may yield the entries of a table: the
\* sequences without repetition of each set of keys
RECURSIVE Orders(_)
Orders(keys) ==
    IF keys = {} THEN {<<>>}
    ELSE UNION {{<<k>> \o o : o \in Orders(keys \ {k})} : k \in keys}
TableOrders == UNION {Orders(keys) : keys \in SUBSET DKeys}

\* map.insert(key, value) overwriting silently: it reports None
map_insert_overwrites(map, key, value) ==
    [map |-> {e \in map : e.key # key} \cup {[key |-> key, value |-> value]},
     replaced |-> FALSE]

\* map.insert(key, value): the old entry is replaced and reported as Some(..)
map_insert(map, key, value) ==
    [map |-> {e \in map : e.key # key} \cup {[key |-> key, value |-> value]},
     replaced |-> \E e \in map : e.key = key]

MapOk(map) == [ok |-> TRUE, map |-> map, err |-> ""]
MapErr(err) == [ok |-> FALSE, map |-> {}, err |-> err]
NoMap == [ok |-> FALSE, map |-> {}, err |-> "none"]
DuplicateKey(kind) ==
    IF kind = "HashMap" THEN "duplicate key in HashMap argument"
    ELSE "duplicate key in BTreeMap argument"

MapInputs ==
    {[phase |-> "input", kind |-> kind, is_tab |-> TRUE, order |-> order,
      keyconv |-> kc, valconv |-> vc, pos |-> 1, map |-> {}, out |-> NoMap] :
         kind \in MapKinds, order \in TableOrders,
         kc \in KeyConversions, vc \in ValueConversions}
    \cup
    {[phase |-> "input", kind |-> kind, is_tab |-> FALSE, order |-> <<>>,
      keyconv |-> [k \in DKeys |-> "err"], valconv |-> [k \in DKeys |-> FALSE],
      pos |-> 1, map |-> {}, out |-> NoMap] : kind \in MapKinds}

InitMap == ConvInit /\ conv \in MapInputs

\* from_val(val): the match on *val
MapFromVal ==
    /\ conv.phase = "input"
    /\ conv' = IF conv.is_tab THEN [conv EXCEPT !.phase = "iter"]
               ELSE [conv EXCEPT !.phase = "done",
                                 !.out = MapErr("expected a " \o conv.kind)]
    /\ UNCHANGED callvars

\* one round of: for (internal_key, internal_value) in tab_borrow.iter()
MapInsert ==
    /\ conv.phase = "iter" /\ conv.pos <= Len(conv.order)
    /\ LET dk == conv.order[conv.pos]
           ins == map_insert(conv.map, conv.keyconv[dk], dk)
       IN conv' =
            IF conv.keyconv[dk] = "err"
            THEN [conv EXCEPT !.phase = "done", !.out = MapErr("K::from_slot")]
            ELSE IF ~conv.valconv[dk]
            THEN [conv EXCEPT !.phase = "done", !.out = MapErr("V::from_slot")]
            ELSE IF ins.replaced
            THEN [conv EXCEPT !.phase = "done", !.map = ins.map,
                              !.out = MapErr(DuplicateKey(conv.kind))]
            ELSE [conv EXCEPT !.pos = @ + 1, !.map = ins.map]
    /\ UNCHANGED callvars

\* Ok(hash_map) / Ok(btree_map)
MapReturn ==
    /\ conv.phase = "iter" /\ conv.pos > Len(conv.order)
    /\ conv' = [conv EXCEPT !.phase = "done", !.out = MapOk(conv.map)]
    /\ UNCHANGED callvars

NextMap ==
    \/ MapFromVal
    \/ MapInsert
    \/ MapReturn

SpecMap == InitMap /\ [][NextMap]_vars

TableKeys(c) == {c.order[j] : j \in 1..Len(c.order)}
AllConvert(c) == \A k \in TableKeys(c) : c.keyconv[k] # "err" /\ c.valconv[k]
Collides(c) ==
    \E k1 \in TableKeys(c) : \E k2 \in TableKeys(c) :
        k1 # k2 /\ c.keyconv[k1] = c.keyconv[k2]

\* C20: from_val of a table in which two distinct keys convert to the same
\* native key, every key and value converting, ends with the duplicate-key
\* error of the map type and returns no map, in whatever order the entries
\* are iterated.
C20_DuplicateKeyRejected ==
    (conv.phase = "done" /\ conv.is_tab /\ AllConvert(conv) /\ Collides(conv)) =>
        conv.out = MapErr(DuplicateKey(conv.kind))

C20_Witness ==
    /\ conv.phase = "done" /\ conv.kind = "BTreeMap"
    /\ conv.order = <<2, 3, 1>>
    /\ conv.keyconv = [k \in DKeys |-> IF k = 2 THEN "six" ELSE "five"]
    /\ AllConvert(conv)
    /\ conv.out = MapErr("duplicate key in BTreeMap argument")

\* ------------------------------------------------------------------------
\* IntoVal for Result<T, E>
\* ------------------------------------------------------------------------
\* an error value: the runtime's GError (an Error with a description and at
\* most one source, or the MacroNoOp signal), or a native error of another type
GErrorType == "GError"
NativeErrorTypes == {"std::io::Error", "std::num::ParseIntError"}
ErrorValue(type, variant, msg, source) ==
    [type |-> type, variant |-> variant, msg |-> msg, source |-> source]
GErrors ==
    {ErrorValue(GErrorType, "Error", msg, <<>>) : msg \in {"bad input", "IntoVal encountered"}}
        \cup {ErrorValue(GErrorType, "MacroNoOp", "", <<>>)}
        \cup {ErrorValue(GErrorType, "Error", "bad input",
                         <<ErrorValue(ty, "", "cause", <<>>)>>) : ty \in NativeErrorTypes}
NativeErrors ==
    {ErrorValue(ty, "", msg, <<>>) : ty \in NativeErrorTypes, msg \in {"cause", "other"}}

\* a GResult<Val> of Result::into_val: the conversion of the payload, or
\* Err(g) as the one-element sequence <<g>>
ResultOk(res) == [res |-> res, gerr |-> <<>>, slot |-> SlotNil]
ResultErr(g) == [res |-> NoOut, gerr |-> <<g>>, slot |-> SlotNil]
NoResultOut == ResultOk(NoOut)

\* dyn_err.is::<GError>()
is_gerror(err) == err.type = GErrorType

\* error!("IntoVal encountered {}", type_name::<E>()).with_source(err)
encountered(err) ==
    ErrorValue(GErrorType, "Error", "IntoVal encountered " \o err.type, <<err>>)

\* result_into_val without the dynamic specialisation for GError
result_into_val_wraps_all(r) ==
    IF r.variant = "Ok" THEN ResultOk(into_val(r.t, r.x))
    ELSE ResultErr(encountered(r.err))

\* IntoVal for Result<T, E> :: into_val
result_into_val(r) ==
    IF r.variant = "Ok" THEN ResultOk(into_val(r.t, r.x))
    ELSE IF is_gerror(r.err) THEN ResultErr(r.err)
    ELSE ResultErr(encountered(r.err))

\* IntoVal for Result<T, E> :: into_slot: self.into_val()?.into_slot()
result_into_slot(r) ==
    LET v == result_into_val(r)
    IN IF v.gerr = <<>> /\ v.res.ok
       THEN [v EXCEPT !.slot = IF v.res.tag = "Int" THEN SlotInt(v.res.v) ELSE SlotNil]
       ELSE v

NoError == ErrorValue("", "", "", <<>>)
ResultInputs ==
    UNION {{[phase |-> "input", op |-> op, r |-> [variant |-> "Ok", t |-> t, x |-> x,
                                                  err |-> NoError],
             out |-> NoResultOut] : x \in ValuesOf(t), op \in {"into_val", "into_slot"}}
           : t \in IntTypes}
    \cup {[phase |-> "input", op |-> op, r |-> [variant |-> "Err", t |-> "i32", x |-> 0,
                                                err |-> e],
           out |-> NoResultOut] : e \in GErrors \cup NativeErrors,
                                  op \in {"into_val", "into_slot"}}

InitResult == ConvInit /\ conv \in ResultInputs

\* result.into_val()
ResultIntoVal ==
    /\ conv.phase = "input" /\ conv.op = "into_val"
    /\ conv' = [conv EXCEPT !.phase = "done", !.out = result_into_val(conv.r)]
    /\ UNCHANGED callvars

\* result.into_slot()
ResultIntoSlot ==
    /\ conv.phase = "input" /\ conv.op = "into_slot"
    /\ conv' = [conv EXCEPT !.phase = "done", !.out = result_into_slot(conv.r)]
    /\ UNCHANGED callvars

NextResult ==
    \/ ResultIntoVal
    \/ ResultIntoSlot

SpecResult == InitResult /\ [][NextResult]_vars

\* C21: converting a native Result: Ok(x) gives the conversion of x; Err of
\* a GError gives that very GError, with its variant, description and source
\* untouched; Err of another type gives a new GError that is an Error, whose
\* description names the type of the native error and whose source is the
\* native error.
C21_ErrorPassThrough ==
    conv.phase = "done" =>
        /\ conv.r.variant = "Ok" =>
              /\ conv.out.gerr = <<>>
              /\ conv.out.res = into_val(conv.r.t, conv.r.x)
        /\ (conv.r.variant = "Err" /\ conv.r.err.type = GErrorType) =>
              conv.out.gerr = <<conv.r.err>>
        /\ (conv.r.variant = "Err" /\ conv.r.err.type # GErrorType) =>
              /\ Len(conv.out.gerr) = 1
              /\ conv.out.gerr[1].type = GErrorType
              /\ conv.out.gerr[1].variant = "Error"
              /\ conv.out.gerr[1].msg = "IntoVal encountered " \o conv.r.err.type
              /\ conv.out.gerr[1].source = <<conv.r.err>>

C21_Witness ==
    /\ conv.phase = "done"
    /\ conv.r.variant = "Err"
    /\ conv.r.err.variant = "MacroNoOp"
    /\ conv.out.gerr = <<ErrorValue(GErrorType, "MacroNoOp", "", <<>>)>>

\* ------------------------------------------------------------------------
\* IntoCallArgs: argument lists converted into a destination buffer of slots
\* ------------------------------------------------------------------------
MaxItems == 3

TupleShapes == {"(T0, ..)", "&(T0, ..)", "&mut (T0, ..)"}
SliceShapes == {"&[T]", "&mut [T]", "[T; N]", "&[T; N]", "&mut [T; N]",
                "Rest<T>", "&Rest<T>", "&mut Rest<T>"}
UnitShapes == {"()", "&()", "&mut ()"}

\* the elements of an argument list: integers, two of which have no Int
Item(t, x) == [t |-> t, x |-> x]
CallItems ==
    {Item("i32", 1), Item("i64", 2), Item("i64", MaxOf("i32") + 1),
     Item("i64", MinOf("i32") - 1)}

\* item.into_slot()
item_into_slot(item) ==
    LET v == into_val(item.t, item.x)
    IN [ok |-> v.ok, slot |-> IF v.ok THEN SlotInt(v.v) ELSE SlotNil, err |-> v]

\* self.len() / N / $len
arg_count(items) == Len(items)

\* one element of the iterator that a slice, an array or a Rest hands to
\* dst.extend(..): the slot, or Slot::Nil with the first error kept in result
extend_item(c) ==
    LET s == item_into_slot(c.items[c.pos])
    IN [c EXCEPT !.pos = @ + 1,
                 !.dst = Append(@, IF s.ok THEN s.slot ELSE SlotNil),
                 !.result = IF ~s.ok /\ c.result.ok THEN s.err ELSE @]

\* tuple_item with the failure handling of the slices
tuple_item_keeps_going(c) ==
    LET s == item_into_slot(c.items[c.pos])
    IN [c EXCEPT !.pos = @ + 1,
                 !.slots = Append(@, IF s.ok THEN s.slot ELSE SlotNil),
                 !.result = IF ~s.ok /\ c.result.ok THEN s.err ELSE @]

\* one element of: let slots = [ $( (self.$i).into_slot()? ),+ ]
tuple_item(c) ==
    LET s == item_into_slot(c.items[c.pos])
    IN IF s.ok THEN [c EXCEPT !.pos = @ + 1, !.slots = Append(@, s.slot)]
       ELSE [c EXCEPT !.phase = "done", !.result = s.err]

CallArgsInput(shape, items, dst) ==
    [phase |-> "input", shape |-> shape, items |-> items, dst0 |-> dst, dst |-> dst,
     pos |-> 1, slots |-> <<>>, result |-> NoOut]
SameType(items) == \A i \in 1..Len(items) : items[i].t = items[1].t
BufferContents == {<<>>, <<SlotInt(0)>>}
CallArgsInputs ==
    {CallArgsInput(shape, items, dst) :
        shape \in TupleShapes, items \in SeqsUpTo(CallItems, MaxItems) \ {<<>>},
        dst \in BufferContents}
    \cup {CallArgsInput(shape, items, dst) :
        shape \in SliceShapes,
        items \in {s \in SeqsUpTo(CallItems, MaxItems) : SameType(s)},
        dst \in BufferContents}
    \cup {CallArgsInput(shape, <<>>, dst) : shape \in UnitShapes, dst \in BufferContents}

InitCallArgs == ConvInit /\ conv \in CallArgsInputs

\* args.into_call_args(&mut dst)
IntoCallArgs ==
    /\ conv.phase = "input"
    /\ conv' = IF conv.shape \in UnitShapes THEN [conv EXCEPT !.phase = "done"]
               ELSE IF conv.shape \in TupleShapes THEN [conv EXCEPT !.phase = "tuple"]
               ELSE [conv EXCEPT !.phase = "extend"]
    /\ UNCHANGED callvars

\* dst.extend(self.iter().map(..)): the next element
CallArgsExtendItem ==
    /\ conv.phase = "extend" /\ conv.pos <= Len(conv.items)
    /\ conv' = extend_item(conv)
    /\ UNCHANGED callvars

\* result
CallArgsExtendReturn ==
    /\ conv.phase = "extend" /\ conv.pos > Len(conv.items)
    /\ conv' = [conv EXCEPT !.phase = "done"]
    /\ UNCHANGED callvars

\* (self.$i).into_slot()?
CallArgsTupleItem ==
    /\ conv.phase = "tuple" /\ conv.pos <= Len(conv.items)
    /\ conv' = tuple_item(conv)
    /\ UNCHANGED callvars

\* dst.extend(slots.iter().cloned()); Ok(())
CallArgsTupleExtend ==
    /\ conv.phase = "tuple" /\ conv.pos > Len(conv.items)
    /\ conv' = [conv EXCEPT !.phase = "done", !.dst = @ \o conv.slots]
    /\ UNCHANGED callvars

NextCallArgs ==
    \/ IntoCallArgs
    \/ CallArgsExtendItem
    \/ CallArgsExtendReturn
    \/ CallArgsTupleItem
    \/ CallArgsTupleExtend

SpecCallArgs == InitCallArgs /\ [][NextCallArgs]_vars

Failing(items) == {i \in 1..Len(items) : ~item_into_slot(items[i]).ok}
FirstFailing(items) == CHOOSE i \in Failing(items) : \A j \in Failing(items) : i <= j
FirstError(items) ==
    IF Failing(items) = {} THEN NoOut ELSE item_into_slot(items[FirstFailing(items)]).err
Visited(c) == c.pos - 1

\* C22: into_call_args of every shape of argument list has visited every
\* element when it returns, has made the destination buffer longer by
\* arg_count() slots whether or not an element failed, and returns the error
\* of the first failing element.
C22_FirstErrorRule ==
    conv.phase = "done" =>
        /\ Visited(conv) = Len(conv.items)
        /\ Len(conv.dst) = Len(conv.dst0) + arg_count(conv.items)
        /\ conv.result = FirstError(conv.items)

\* a tuple with a failing element: the call returns at that element, with
\* the elements after it not visited and the buffer as it was
C22_TupleStopsEarly ==
    /\ conv.phase = "done" /\ conv.shape = "(T0, ..)"
    /\ conv.items = <<Item("i32", 1), Item("i64", MaxOf("i32") + 1), Item("i64", 2)>>
    /\ conv.dst = conv.dst0
    /\ Visited(conv) = 1

\* the slices, arrays and Rests do what C22 says
C22_SlicesVisitAll ==
    (conv.phase = "done" /\ conv.shape \in SliceShapes \cup UnitShapes) =>
        /\ Visited(conv) = Len(conv.items)
        /\ Len(conv.dst) = Len(conv.dst0) + arg_count(conv.items)
        /\ conv.result = FirstError(conv.items)

\* C30: into_call_args of a tuple or of a reference to one converts the
\* elements in order; at the first element that fails it returns the error of
\* that element, with no later element converted and the destination buffer
\* unchanged; with no failing element it appends the arg_count() slots of the
\* elements, in their order, and returns Ok.
C30_TupleAllOrNothing ==
    conv.shape \in TupleShapes =>
        /\ conv.phase = "tuple" => conv.dst = conv.dst0
        /\ (conv.phase = "done" /\ Failing(conv.items) # {}) =>
              /\ conv.result = FirstError(conv.items)
              /\ conv.pos = FirstFailing(conv.items)
              /\ conv.dst = conv.dst0
        /\ (conv.phase = "done" /\ Failing(conv.items) = {}) =>
              /\ conv.result = NoOut
              /\ Len(conv.dst) = Len(conv.dst0) + arg_count(conv.items)
              /\ conv.dst = conv.dst0 \o [i \in 1..Len(conv.items) |->
                                             item_into_slot(conv.items[i]).slot]

C30_Witness ==
    /\ conv.phase = "done" /\ conv.shape = "&(T0, ..)"
    /\ conv.items = <<Item("i64", 2), Item("i64", MinOf("i32") - 1),
                      Item("i64", MaxOf("i32") + 1)>>
    /\ conv.result = RangeErr(MinOf("i32") - 1)
    /\ conv.dst = <<SlotInt(0)>>

\* ------------------------------------------------------------------------
\* FromVal for [T; N] and for the tuples
\* ------------------------------------------------------------------------
FixedKinds == {"[T; N]", "tuple"}
ElemTypes == {"i32", "u8"}
ElemVals == {SlotInt(1), SlotInt(-1), SlotNil}

\* the types T0, .. of the elements: N times T for an array, at least one
\* for a tuple
FixedTypes(kind) ==
    IF kind = "[T; N]"
    THEN {ts \in SeqsUpTo(ElemTypes, MaxItems) : \A i \in 1..Len(ts) : ts[i] = ts[1]}
    ELSE SeqsUpTo(ElemTypes, MaxItems) \ {<<>>}

FixedOk(vals) == [ok |-> TRUE, vals |-> vals, err |-> NoOut]
FixedErr(err) == [ok |-> FALSE, vals |-> <<>>, err |-> err]
NoFixed == FixedErr(NoOut)
LengthErr(kind, len) ==
    IF kind = "[T; N]" THEN ConvErr("expected a [T; N], received an array of length", "", "", len)
    ELSE ConvErr("expected a N-element tuple, received an arr of length", "", "", len)
NotArrErr(kind, val) ==
    IF kind = "[T; N]" THEN ConvErr("expected a [T; N]", "", val.tag, 0)
    ELSE ConvErr("expected a tuple", "", val.tag, 0)

\* match *val, then ensure!(arr.len() == N, ..)
fixed_from_val(c) ==
    IF ~c.is_arr THEN [c EXCEPT !.phase = "done", !.out = FixedErr(NotArrErr(c.kind, c.val))]
    ELSE IF Len(c.arr) # Len(c.types)
    THEN [c EXCEPT !.phase = "done", !.out = FixedErr(LengthErr(c.kind, Len(c.arr)))]
    ELSE [c EXCEPT !.phase = "get"]

\* fixed_get with unwrap_or_default() for the `?`
fixed_get_goes_on(c) ==
    LET r == from_val(c.types[c.pos], c.arr[c.pos])
    IN [c EXCEPT !.pos = @ + 1, !.vals = Append(@, r.v)]

\* arr.get::<T>(i)?
fixed_get(c) ==
    LET r == from_val(c.types[c.pos], c.arr[c.pos])
    IN IF r.ok THEN [c EXCEPT !.pos = @ + 1, !.vals = Append(@, r.v)]
       ELSE [c EXCEPT !.phase = "done", !.out = FixedErr(r)]

FixedInput(kind, types, is_arr, arr, val) ==
    [phase |-> "input", kind |-> kind, types |-> types, is_arr |-> is_arr, arr |-> arr,
     val |-> val, pos |-> 1, vals |-> <<>>, out |-> NoFixed]
FixedInputs ==
    UNION {{FixedInput(kind, types, TRUE, arr, SlotNil) :
               types \in FixedTypes(kind), arr \in SeqsUpTo(ElemVals, MaxItems)}
           \cup {FixedInput(kind, types, FALSE, <<>>, val) :
               types \in FixedTypes(kind), val \in {SlotNil, SlotInt(1)}}
           : kind \in FixedKinds}

InitFixed == ConvInit /\ conv \in FixedInputs

\* <[T; N]>::from_val(&val) / <(T0, ..)>::from_val(&val)
FixedFromVal ==
    /\ conv.phase = "input"
    /\ conv' = fixed_from_val(conv)
    /\ UNCHANGED callvars

\* the next element: vals.push(arr.get::<T>(i)?) / arr.get::<$t>($i)?
FixedGet ==
    /\ conv.phase = "get" /\ conv.pos <= Len(conv.types)
    /\ conv' = fixed_get(conv)
    /\ UNCHANGED callvars

\* Ok(TryFrom::try_from(vals).ok().unwrap()) / Ok((.., ))
FixedReturn ==
    /\ conv.phase = "get" /\ conv.pos > Len(conv.types)
    /\ conv' = [conv EXCEPT !.phase = "done", !.out = FixedOk(conv.vals)]
    /\ UNCHANGED callvars

NextFixed ==
    \/ FixedFromVal
    \/ FixedGet
    \/ FixedReturn

SpecFixed == InitFixed /\ [][NextFixed]_vars

ElemFails(c) == {i \in 1..Len(c.types) : ~from_val(c.types[i], c.arr[i]).ok}
FirstElemFailing(c) == CHOOSE i \in ElemFails(c) : \A j \in ElemFails(c) : i <= j

\* C23: from_val of an N-tuple or of a [T; N] from an array is Ok exactly when
\* the array has N elements and each converts to its type, and is then the
\* converted elements in order; with another length the length error is
\* returned with no element converted; with the length N and a failing
\* element the error of the failing element of the lowest index is returned,
\* with no element after it converted.
C23_FixedArityExtraction ==
    (conv.phase = "done" /\ conv.is_arr) =>
        IF Len(conv.arr) # Len(conv.types)
        THEN /\ conv.out = FixedErr(LengthErr(conv.kind, Len(conv.arr)))
             /\ conv.pos = 1 /\ conv.vals = <<>>
        ELSE IF ElemFails(conv) # {}
        THEN /\ conv.out =
                  FixedErr(from_val(conv.types[FirstElemFailing(conv)],
                                    conv.arr[FirstElemFailing(conv)]))
             /\ conv.pos = FirstElemFailing(conv)
        ELSE conv.out = FixedOk([i \in 1..Len(conv.types) |->
                                    from_val(conv.types[i], conv.arr[i]).v])

C23_Witness ==
    /\ conv.phase = "done" /\ conv.kind = "tuple"
    /\ conv.types = <<"i32", "u8", "i32">>
    /\ conv.arr = <<SlotInt(-1), SlotInt(-1), SlotNil>>
    /\ conv.out = FixedErr(IntValueErr("u8", -1))
    /\ conv.pos = 2

\* ------------------------------------------------------------------------
\* Further properties of wrapped_call
\* ------------------------------------------------------------------------
IndexPanic == "index out of bounds"

\* C24: in every call that passed the bounds check of an accepted parameter
\* list, each Normal parameter is staged at an argument index below the
\* number of arguments, the one about to be staged included, so that args[i]
\* never panics; an Option or Rest parameter may be staged at an index at or
\* beyond the number of arguments.
C24_IndexSafety ==
    /\ panicked # IndexPanic
    /\ \A f \in Frames :
          f.holds_args =>
              /\ \A e \in MakeTempEvents(f) :
                    arg_type(Params[e.k]) = "Normal" => e.i < Len(f.args)
              /\ (f.k <= Len(Params) /\ arg_type(Params[f.k]) = "Normal") =>
                    f.arg_i < Len(f.args)

C24_Witness ==
    /\ stack # <<>> /\ Top.holds_args
    /\ Params = <<PRef, POptVal>>
    /\ Len(Top.args) = 1
    /\ Event("make_temp", 1, 0) \in MakeTempEvents(Top)
    /\ Event("make_temp", 2, 1) \in MakeTempEvents(Top)

InvokeCount(f) == Cardinality({i \in 1..Len(f.log) : f.log[i].ev = "invoke"})
StepErrors == {"expected &T", "expected &mut T", "expected i32", "expected a SmallVec",
               "rglobal not registered", "rglobal borrow conflict"}

\* what C25 says of the calls that end without a panic: the native function
\* is entered at most once, and only with every parameter staged and
\* projected; a call that ends in its staging or projection steps returns the
\* error of the failing step, without an invocation and without a conversion
\* of a return value
C25_NoInvokeAfterFailure ==
    /\ [](\A f \in Frames :
            /\ InvokeCount(f) <= 1
            /\ HasEvent(f, "invoke") =>
                  /\ Len(f.temps) = Len(Params) /\ Len(f.vals) = Len(Params)
                  /\ \A k \in 1..Len(Params) : from_arg(Params[k], f.temps[k]) = "ok")
    /\ [][(stack # <<>> /\ stack' = Pop /\ Top.pc # "body") =>
             /\ InvokeCount(Top) = 0
             /\ ret'.status = "err" /\ ret'.kind \in StepErrors
             /\ Top.pc = "stage" =>
                   ret'.kind = make_temp(Params[Top.k], Top.args, Top.arg_i, flag, registered).err
             /\ Top.pc = "project" =>
                   ret'.kind = from_arg(Params[Top.k], Top.temps[Top.k])]_vars

\* C25: the native function is invoked at most once in a wrapped_call and
\* only after the bounds check, every make_temp and every from_arg succeeded;
\* a failure of any of these steps is an error that wrapped_call returns, so
\* that no call of a built wrapper ends in a panic.
C25_InvokeOnlyAfterSuccess ==
    /\ \A f \in Frames :
          /\ InvokeCount(f) <= 1
          /\ HasEvent(f, "invoke") =>
                /\ Len(f.temps) = Len(Params) /\ Len(f.vals) = Len(Params)
                /\ \A k \in 1..Len(Params) : from_arg(Params[k], f.temps[k]) = "ok"
    /\ wrapper.built => panicked = ""

\* wrapped functions over values, RData references and references to the
\* RGlobal singleton
BorrowParamTypes == {PVal, PRef, PRefMut, PGRef, PGRefMut}
BorrowSignatures == SeqsUpTo(BorrowParamTypes, MaxParams)

NextBorrows ==
    \/ AddRGlobal
    \/ \E ps \in BorrowSignatures : wrap(ps)
    \/ \E args \in ArgLists : wrapped_call(args)
    \/ CallSteps

SpecBorrows == Init /\ [][NextBorrows]_vars

\* C26: the borrows outstanding of every RData box and of the singleton are
\* at all times exactly those owned by the temporaries of the calls in
\* progress, so that when a wrapped_call has returned, after the native call,
\* after a failing make_temp with borrows staged before it or after a failing
\* from_arg, the borrows it took are released and the borrow state is that of
\* the calls still in progress, as before the call; with no call in progress
\* nothing is borrowed.
C26_BorrowsBalanced ==
    /\ \A c \in Cells :
          LET sh == CountTemps(AllTemps(stack), c, SharedTemps)
              ex == CountTemps(AllTemps(stack), c, ExclusiveTemps)
          IN IF ex > 0 THEN ex = 1 /\ sh = 0 /\ flag[c] = -1
             ELSE flag[c] = sh
    /\ stack = <<>> => \A c \in Cells : flag[c] = 0 /\ can_borrow_mut(flag, c)

C26_Witness ==
    /\ Idle /\ registered
    /\ Params = <<PGRefMut, PRef>>
    /\ ret = ErrResult("expected &T")
    /\ \A c \in Cells : flag[c] = 0

\* the outcome of the staging step of parameter k of ps for the arguments
\* args, with nothing borrowed
StageIndex(ps, k) == Cardinality({j \in 1..(k - 1) : arg_type(ps[j]) # "RGlobal"})
StageOf(ps, args, k) ==
    make_temp(ps[k], args, StageIndex(ps, k), [c \in Cells |-> 0], TRUE)
\* the parameters whose staging step returns an error for args, and those
\* whose staging step succeeds and whose projection step returns an error
StagingFailures(ps, args) == {k \in 1..Len(ps) : StageOf(ps, args, k).out = "err"}
ProjectionFailures(ps, args) ==
    {k \in 1..Len(ps) : /\ StageOf(ps, args, k).out = "ok"
                        /\ from_arg(ps[k], StageOf(ps, args, k).temp) # "ok"}
Lowest(S) == CHOOSE k \in S : \A j \in S : k <= j
TempFailures(f) == {k \in 1..Len(f.temps) : from_arg(Params[k], f.temps[k]) # "ok"}

\* C27: a wrapped_call that returns an error from its staging steps returns
\* the error of the lowest parameter whose make_temp fails for the arguments,
\* whatever from_arg would say of the parameters before it; the temporaries
\* are those that make_temp gives for the arguments, and a call that returns
\* an error from its projection steps has staged every parameter and returns
\* the error of the lowest parameter whose from_arg fails.
C27_ErrorPrecedence ==
    /\ [](\A f \in Frames :
            /\ f.holds_args =>
                  \A k \in 1..Len(f.temps) :
                      /\ k \notin StagingFailures(Params, f.args)
                      /\ f.temps[k] = StageOf(Params, f.args, k).temp
            /\ ~f.holds_args =>
                  /\ Len(f.temps) = Len(Params)
                  /\ \A k \in 1..Len(f.vals) : k \notin TempFailures(f))
    /\ [][(stack # <<>> /\ stack' = Pop /\ Top.pc = "stage") =>
             /\ StagingFailures(Params, Top.args) # {}
             /\ Top.k = Lowest(StagingFailures(Params, Top.args))
             /\ ret' = ErrResult(StageOf(Params, Top.args, Top.k).err)]_vars
    /\ [][(stack # <<>> /\ stack' = Pop /\ Top.pc = "project") =>
             /\ TempFailures(Top) # {}
             /\ Top.k = Lowest(TempFailures(Top))
             /\ ret' = ErrResult(from_arg(Params[Top.k], Top.temps[Top.k]))]_vars

\* a call with two invalid arguments, the first failing in from_arg and the
\* second in make_temp, has staged the first and is about to stage the second
C27_Witness ==
    /\ stack # <<>> /\ Top.pc = "stage" /\ Top.k = 2
    /\ Params = <<PVal, PRef>>
    /\ 1 \in ProjectionFailures(Params, Top.args)
    /\ 2 \in StagingFailures(Params, Top.args)

\* it returns the error of the second
C27_Returned ==
    /\ Idle
    /\ Params = <<PVal, PRef>>
    /\ ret = ErrResult("expected &T")

ArityErrors == {"too few arguments", "too many arguments"}

\* C28: a wrapped_call whose number of arguments is outside the cached
\* bounds returns the arity error at once: no frame is entered, so that no
\* make_temp runs and no slot is cloned, the borrow flags of the boxes and of
\* the singleton and the borrow of the argument buffer are as before, and
\* nothing panics, whatever is borrowed by the calls in progress.
C28_ArityFailureNoSideEffect ==
    [][\A args \in ArgLists :
          (wrapped_call(args) /\ (Len(args) < wrapper.min \/ Len(args) > wrapper.max)) =>
              /\ ret'.status = "err" /\ ret'.kind \in ArityErrors
              /\ ret'.received = Len(args)
              /\ stack' = stack
              /\ flag' = flag
              /\ stack_refs' = stack_refs
              /\ registered' = registered
              /\ panicked' = ""]_vars

C28_Witness ==
    /\ InBody
    /\ Params = <<PGRefMut, PRefMut>>
    /\ flag[GCell] = -1 /\ \E b \in Boxes : flag[b] = -1
    /\ ret = ArityErr("too many arguments", 2, 1)
    /\ Len(stack) = 1 /\ Len(Top.temps) = 2

Absent(args, i) == IF i >= Len(args) THEN TRUE ELSE At(args, i) = SlotNil
WithoutOptGRef(ps) == SelectSeq(ps, LAMBDA p : p # POptGRef)
StagingOptGRef ==
    /\ stack # <<>> /\ Top.pc = "stage" /\ Top.k <= Len(Params)
    /\ Params[Top.k] = POptGRef

\* C29: Option<&G> is an Option parameter: it adds one to the maximum of the
\* wrapper and is staged from an argument index of its own, the next
\* parameter being staged from the index after it; staged while its argument
\* is missing or nil it is None, with the singleton neither borrowed nor
\* asked for, registered or not; staged with any other argument it is a
\* shared borrow of the registered singleton, and the borrows of the
\* singleton are those of the temporaries that are no None.
C29_OptionalRGlobal ==
    /\ []((wrapper.built /\ ~HasRest(Params)) =>
            wrapper.max = calculate_arg_limits(WithoutOptGRef(Params)).max
                              + Len(Params) - Len(WithoutOptGRef(Params)))
    /\ [](\A f \in Frames : \A k \in 1..Len(f.temps) :
            (Params[k] = POptGRef /\ f.holds_args) =>
                /\ StagedAt(f, k) = StageIndex(Params, k)
                /\ (f.k = k + 1 /\ f.pc = "stage") => f.arg_i = StagedAt(f, k) + 1
                /\ IF Absent(f.args, StagedAt(f, k)) THEN f.temps[k] = TempNone
                   ELSE f.temps[k] = TempRGlobalRef /\ registered /\ flag[GCell] >= 1)
    /\ [](LET sh == CountTemps(AllTemps(stack), GCell, {"RGlobalRef"})
              ex == CountTemps(AllTemps(stack), GCell, {"RGlobalRefMut"})
          IN IF ex > 0 THEN flag[GCell] = -1 ELSE flag[GCell] = sh)
    /\ [][(StagingOptGRef /\ Absent(Top.args, Top.arg_i)) =>
             /\ flag' = flag /\ panicked' = ""
             /\ stack' = SetTop([Top EXCEPT
                    !.temps = Append(@, TempNone), !.arg_i = @ + 1, !.k = @ + 1,
                    !.log = Append(@, Event("make_temp", Top.k, Top.arg_i))])]_vars
    /\ [][(StagingOptGRef /\ ~Absent(Top.args, Top.arg_i) /\ Len(stack') = Len(stack)
              /\ panicked' = "") =>
             /\ registered /\ flag[GCell] >= 0
             /\ flag' = [flag EXCEPT ![GCell] = @ + 1]]_vars

C29_Witness ==
    /\ InBody /\ ~registered
    /\ Params = <<POptGRef, POptGRef>>
    /\ wrapper.min = 0 /\ wrapper.max = 2
    /\ Top.temps = <<TempNone, TempNone>>
    /\ flag[GCell] = 0

\* Option<&G> staged with an argument that is not nil
C29_Borrowed ==
    /\ InBody /\ registered
    /\ Params = <<POptGRef, PVal>>
    /\ Top.temps = <<TempRGlobalRef, TempSlot(SlotInt(1))>>
    /\ flag[GCell] = 1

====
